---- MODULE Spec2Model ----
(***************************************************************************)
(* Model of the Python client of the Unified MCP Server                    *)
(* (src/unified-mcp-server/src/clients/python/unified_mcp_client.py).      *)
(*                                                                         *)
(* Threads: the caller threads (constructor, on/off, domain methods,       *)
(* _socket_request, close) and the transport's background delivery thread  *)
(* (push events, correlation callbacks).                                   *)
(***************************************************************************)
EXTENDS Integers, Sequences, FiniteSets, TLC

\* ------------------------------------------------------------------ bounds
NumHandlers == 2
MaxOps == 3
MaxRegs == 3
NumCallers == 2
MaxCalls == 2
MaxTime == 1
MaxTimeout == 1

Handlers == 1..NumHandlers

\* caller threads, and the emissions (one correlation callback each)
Callers == 1..NumCallers
CallIds == 1..MaxCalls

\* The push events the transport forwards (lines 63-73); on/off take the same names.
EventNames == {"task_updated", "task_deleted", "agent_updated"}

VARIABLES
    ctor,            \* position of __init__: "setup" (line 44), "handlers" (line 49), "ready"
    use_websocket,   \* constructor argument websocket
    sio,             \* self.sio: "None" or "Client"
    transportUp,     \* the transport's background delivery is running
    handlers_init,   \* the attribute self.event_handlers exists
    event_handlers,  \* self.event_handlers: event name -> [present, list]
    hist,            \* ghost: the on/off calls made so far, in order
    disp,            \* the background thread's position in _trigger_event (invoked, minCount, missed: ghost)
    timeout,         \* constructor argument timeout (self.timeout)
    now,             \* time.time()
    th,              \* per caller thread: position and the locals of its current call
    nextId,          \* the transport's next correlation id
    closure,         \* per emission: response_received, response_data, response_error
    cb,              \* per emission: the correlation callback's position
    reply,           \* per emission: the reply the server sent (the callback's argument)
    arrival          \* ghost: per emission, the time its reply arrived

evVars == <<handlers_init, event_handlers, hist, disp>>

brVars == <<timeout, now, th, nextId, closure, cb, reply, arrival>>

vars == <<ctor, use_websocket, sio, transportUp, handlers_init, event_handlers, hist, disp,
          timeout, now, th, nextId, closure, cb, reply, arrival>>

\* ----------------------------------------------------------------- helpers
Count(s, h) == Cardinality({i \in 1..Len(s) : s[i] = h})

Min(a, b) == IF a < b THEN a ELSE b

RECURSIVE SumLen(_, _)
SumLen(eh, S) ==
    IF S = {} THEN 0
    ELSE LET e == CHOOSE x \in S : TRUE IN Len(eh[e].list) + SumLen(eh, S \ {e})

\* number of registrations held by the registry
Registered(eh) == SumLen(eh, DOMAIN eh)

NoKey == [present |-> FALSE, list |-> <<>>]

ZeroCount == [h \in Handlers |-> 0]

IdleDisp == [phase |-> "idle", event |-> "task_updated", idx |-> 0,
             invoked |-> ZeroCount, minCount |-> ZeroCount, missed |-> FALSE]

\* faulty variant of ListRemove: every item equal to handler is deleted
ListRemoveAll(s, h) == SelectSeq(s, LAMBDA x : x # h)

\* list.remove(handler): deletes the first item equal to handler (line 111)
ListRemove(s, h) ==
    LET i == CHOOSE k \in 1..Len(s) : s[k] = h /\ \A j \in 1..(k-1) : s[j] # h
    IN  SubSeq(s, 1, i-1) \o SubSeq(s, i+1, Len(s))

\* on(event, handler), lines 94-97
OnResult(eh, e, h) ==
    [eh EXCEPT ![e] = [present |-> TRUE, list |-> Append(eh[e].list, h)]]

\* off(event, handler), lines 107-111
OffResult(eh, e, h) ==
    IF ~eh[e].present THEN eh
    ELSE IF \E k \in 1..Len(eh[e].list) : eh[e].list[k] = h
         THEN [eh EXCEPT ![e].list = ListRemove(eh[e].list, h)]
         ELSE eh

\* ghost: while _trigger_event iterates event d.event, the least number of
\* registrations each handler has had since the dispatch started
Track(d, eh) ==
    IF d.phase = "iter"
    THEN [d EXCEPT !.minCount = [h \in Handlers |->
                Min(d.minCount[h], Count(eh[d.event].list, h))]]
    ELSE d

\* ------------------------------------------------------------ domain table
\* The public methods: name :> [event, field, verb, path] as written in lines
\* 211-509. health has no real-time branch (line 218).
MethodTable ==
    "health" :> [event |-> "-", field |-> "-", verb |-> "GET", path |-> "/health"] @@
    "create_agent" :> [event |-> "agent:create", field |-> "agent", verb |-> "POST", path |-> "/api/v1/agents"] @@
    "get_agent" :> [event |-> "agent:get", field |-> "agent", verb |-> "GET", path |-> "/api/v1/agents/{id}"] @@
    "list_agents" :> [event |-> "agent:list", field |-> "agents", verb |-> "GET", path |-> "/api/v1/agents"] @@
    "update_agent" :> [event |-> "agent:update", field |-> "agent", verb |-> "PUT", path |-> "/api/v1/agents/{id}"] @@
    "delete_agent" :> [event |-> "agent:delete", field |-> "success", verb |-> "DELETE", path |-> "/api/v1/agents/{id}"] @@
    "run_agent" :> [event |-> "agent:run", field |-> "result", verb |-> "POST", path |-> "/api/v1/agents/{id}/run"] @@
    "create_task" :> [event |-> "task:create", field |-> "task", verb |-> "POST", path |-> "/api/v1/tasks"] @@
    "get_task" :> [event |-> "task:get", field |-> "task", verb |-> "GET", path |-> "/api/v1/tasks/{id}"] @@
    "list_tasks" :> [event |-> "task:list", field |-> "tasks", verb |-> "GET", path |-> "/api/v1/tasks"] @@
    "update_task" :> [event |-> "task:update", field |-> "task", verb |-> "PUT", path |-> "/api/v1/tasks/{id}"] @@
    "delete_task" :> [event |-> "task:delete", field |-> "success", verb |-> "DELETE", path |-> "/api/v1/tasks/{id}"] @@
    "add_dependency" :> [event |-> "task:addDependency", field |-> "task", verb |-> "POST", path |-> "/api/v1/tasks/{id}/dependencies"] @@
    "remove_dependency" :> [event |-> "task:removeDependency", field |-> "task", verb |-> "DELETE", path |-> "/api/v1/tasks/{id}/dependencies/{depId}"] @@
    "get_next_task" :> [event |-> "task:getNext", field |-> "task", verb |-> "GET", path |-> "/api/v1/tasks/next"] @@
    "list_tools" :> [event |-> "tool:list", field |-> "tools", verb |-> "GET", path |-> "/api/v1/tools"] @@
    "execute_tool" :> [event |-> "tool:execute", field |-> "result", verb |-> "POST", path |-> "/api/v1/tools/{name}/execute"]

Methods == DOMAIN MethodTable

Entry(name) == MethodTable[name]

\* the methods whose HTTP branch discards the parsed body and returns True
\* (delete_agent lines 304-305, delete_task lines 416-417)
DeleteMethods == {"delete_agent", "delete_task"}

\* ----------------------------------------------------------------- replies
\* A reply of the server: its success flag, its error field and whether it
\* carries the field the method extracts. "absent" is a missing key, "None" a
\* null, "" the empty string.
Replies ==
    {[success |-> "True", error |-> "absent", field |-> f] : f \in BOOLEAN}
    \cup {[success |-> "False", error |-> e, field |-> FALSE] : e \in {"absent", "None", "", "X"}}
    \cup {[success |-> "absent", error |-> "X", field |-> FALSE]}

\* the replies that differ for a domain method: with and without its field,
\* and two failures
FacadeReplies == {r \in Replies : r.success = "True" \/ (r.success = "False" /\ r.error \in {"", "X"})}

\* the replies that differ for concurrent calls: a success and a failure
ConcurrentReplies == {r \in Replies : (r.success = "True" /\ r.field) \/ (r.success = "False" /\ r.error = "X")}

NoReply == [success |-> "-", error |-> "-", field |-> FALSE]

\* Python truthiness of the values a reply field can take
Truthy(v) == v \notin {"absent", "None", "", "False"}

\* response.get('error', 'Unknown error') (line 194): the default replaces a
\* missing key only
GetError(r) == IF r.error = "absent" THEN "Unknown error" ELSE r.error

NoError == [val |-> "None", src |-> 0]

\* lines 183-185
NewClosure == [response_received |-> FALSE, response_data |-> 0, response_error |-> NoError]

\* what the server can answer to an HTTP request (line 147)
HttpResponses == {"2xx_json", "2xx_empty", "status_json", "status_text", "network"}

\* ----------------------------------------------------------------- threads
\* how a call ended: kind "return"/"raise", what is returned or raised, src the
\* emission whose reply it comes from, event the event an error message names
NoOutcome == [kind |-> "none", what |-> "-", src |-> 0, event |-> "-"]

Returns(w, i) == [kind |-> "return", what |-> w, src |-> i, event |-> "-"]

Raises(w, i) == [kind |-> "raise", what |-> w, src |-> i, event |-> "-"]

\* Exception(f"WebSocket request timeout for event: {event}") (line 204)
TimeoutError(ev) == [kind |-> "raise", what |-> "timeout", src |-> 0, event |-> ev]

\* pc: "idle", "http" (line 147), "sr_check" (line 180), "sr_emit" (line 183),
\* "sr_wait" (the loop of lines 200-201).
\* method/event: the call; id: its emission; deadline: timeout_time;
\* emits/https/rtAtCall/endAt/cbAtEnd/waited/resp: ghosts of the current (or last)
\* call (resp: the HTTP answer it got)
IdleThread == [pc |-> "idle", method |-> "-", event |-> "-", id |-> 0, deadline |-> 0,
               emits |-> 0, https |-> 0, rtAtCall |-> FALSE, endAt |-> 0,
               cbAtEnd |-> "none", waited |-> FALSE, resp |-> "-", outcome |-> NoOutcome]

\* ghost: a handler that stayed registered k times throughout the dispatch was
\* invoked fewer than k times
Missed(d) == \E h \in Handlers : d.invoked[h] < d.minCount[h]

\* -------------------------------------------------------------------- Init
Init ==
    /\ ctor = "setup"
    /\ use_websocket \in BOOLEAN
    /\ sio = "None"
    /\ transportUp = FALSE
    /\ handlers_init = FALSE
    /\ event_handlers = [e \in EventNames |-> NoKey]
    /\ hist = <<>>
    /\ disp = IdleDisp
    /\ timeout \in 0..MaxTimeout
    /\ now = 0
    /\ th = [t \in Callers |-> IdleThread]
    /\ nextId = 1
    /\ closure = [i \in CallIds |-> NewClosure]
    /\ cb = [i \in CallIds |-> "none"]
    /\ reply = [i \in CallIds |-> NoReply]
    /\ arrival = [i \in CallIds |-> -1]

\* ------------------------------------------------------------- constructor
\* __init__ lines 44-46 with _setup_websocket (lines 51-84): sio.connect either
\* returns, leaving the transport running, or raises and self.sio is reset.
CtorSetup ==
    /\ ctor = "setup"
    /\ ctor' = "handlers"
    /\ IF use_websocket
       THEN \E ok \in BOOLEAN :
              /\ sio' = IF ok THEN "Client" ELSE "None"
              /\ transportUp' = ok
       ELSE /\ sio' = "None"
            /\ transportUp' = FALSE
    /\ UNCHANGED <<use_websocket, handlers_init, event_handlers, hist, disp, brVars>>

\* __init__ line 49: self.event_handlers = {}
CtorHandlers ==
    /\ ctor = "handlers"
    /\ ctor' = "ready"
    /\ handlers_init' = TRUE
    /\ event_handlers' = [e \in EventNames |-> NoKey]
    /\ UNCHANGED <<use_websocket, sio, transportUp, hist, disp, brVars>>

\* ------------------------------------------------------------ registration
\* on(event, handler) called by the caller's thread
On(e, h) ==
    /\ ctor = "ready"
    /\ Registered(event_handlers) < MaxRegs
    /\ event_handlers' = OnResult(event_handlers, e, h)
    /\ disp' = Track(disp, event_handlers')
    /\ UNCHANGED <<ctor, use_websocket, sio, transportUp, handlers_init, brVars>>

\* off(event, handler) called by the caller's thread
Off(e, h) ==
    /\ ctor = "ready"
    /\ event_handlers' = OffResult(event_handlers, e, h)
    /\ disp' = Track(disp, event_handlers')
    /\ UNCHANGED <<ctor, use_websocket, sio, transportUp, handlers_init, brVars>>

\* the same calls with the ghost history recorded
OnLogged(e, h) ==
    /\ Len(hist) < MaxOps
    /\ On(e, h)
    /\ hist' = Append(hist, [op |-> "on", event |-> e, handler |-> h])

OffLogged(e, h) ==
    /\ Len(hist) < MaxOps
    /\ Off(e, h)
    /\ hist' = Append(hist, [op |-> "off", event |-> e, handler |-> h])

\* ---------------------------------------------------------------- dispatch
\* A push event e reaches task_updated/task_deleted/agent_updated (lines 63-73)
\* on the background thread, which enters _trigger_event (lines 121-124).
PushEvent(e) ==
    /\ transportUp
    /\ disp.phase # "iter"
    /\ disp' = IF ~handlers_init
               THEN [IdleDisp EXCEPT !.phase = "AttributeError", !.event = e]
               ELSE IF ~event_handlers[e].present
               THEN [IdleDisp EXCEPT !.phase = "done", !.event = e]
               ELSE [IdleDisp EXCEPT !.phase = "iter", !.event = e,
                        !.minCount = [h \in Handlers |-> Count(event_handlers[e].list, h)]]
    /\ UNCHANGED <<ctor, use_websocket, sio, transportUp, handlers_init, event_handlers, hist, brVars>>

\* What a handler may do when it is invoked for event ev: return, raise, or
\* call on/off for that event (on/off for another event is the caller's On/Off).
HandlerActs(ev) ==
    {[kind |-> k, event |-> ev, handler |-> 1] : k \in {"return", "raise"}}
    \cup {[kind |-> k, event |-> ev, handler |-> h] :
        k \in {"on", "off"}, h \in Handlers}

\* One turn of the loop of _trigger_event (lines 124-128): the list iterator
\* reads the live list at its index; the handler runs inside the try.
DispatchStep ==
    /\ disp.phase = "iter"
    /\ LET lst == event_handlers[disp.event].list IN
       IF disp.idx < Len(lst)
       THEN \E a \in HandlerActs(disp.event) :
              LET h == lst[disp.idx + 1]
                  d1 == [disp EXCEPT !.idx = @ + 1, !.invoked[h] = @ + 1]
              IN  /\ a.kind = "on" => Registered(event_handlers) < MaxRegs
                  /\ event_handlers' =
                        CASE a.kind = "on"  -> OnResult(event_handlers, a.event, a.handler)
                          [] a.kind = "off" -> OffResult(event_handlers, a.event, a.handler)
                          [] OTHER          -> event_handlers
                  /\ UNCHANGED hist
                  /\ disp' = Track(d1, event_handlers')
       ELSE /\ disp' = [IdleDisp EXCEPT !.phase = "done", !.event = disp.event,
                                        !.missed = Missed(disp)]
            /\ UNCHANGED <<event_handlers, hist>>
    /\ UNCHANGED <<ctor, use_websocket, sio, transportUp, handlers_init, brVars>>

\* ------------------------------------------------------------------- close
\* close(), lines 511-515
Close ==
    /\ ctor = "ready"
    /\ IF sio # "None"
       THEN /\ sio' = "None"
            /\ transportUp' = FALSE
       ELSE UNCHANGED <<sio, transportUp>>
    /\ UNCHANGED <<ctor, use_websocket, evVars, brVars>>

\* ------------------------------------------------------------ HTTP branch
\* _request (lines 144-167): response.json() of a 2xx response with an empty
\* body raises a JSON decode error, which carries no response and is re-raised.
RequestOutcome(resp) ==
    CASE resp = "2xx_json"    -> Returns("json", 0)
      [] resp = "2xx_empty"   -> Raises("JSONDecodeError", 0)
      [] resp = "status_json" -> Raises("API error: status - json", 0)
      [] resp = "status_text" -> Raises("API error: status - text", 0)
      [] OTHER                -> Raises("network", 0)

\* the else branch of a domain method: delete_* call _request and return True,
\* the others return what _request returns
HttpBranch(m, resp) ==
    LET r == RequestOutcome(resp) IN
    IF r.kind = "raise" THEN r
    ELSE IF m \in DeleteMethods THEN Returns("True", 0) ELSE r

\* faulty variant of Route: health branches like every other method
RouteAll(m) == IF sio # "None" THEN "rt" ELSE "http"

\* faulty variant of Route: the branch tests the configured flag, not the live handle
RouteByFlag(m) == IF m # "health" /\ use_websocket THEN "rt" ELSE "http"

\* the transport a domain method picks: `if self.sio:` in every method but
\* health, which calls _request unconditionally (line 218)
Route(m) == IF m # "health" /\ sio # "None" THEN "rt" ELSE "http"

\* ------------------------------------------------------------------ bridge
\* faulty variant of NotConnected: the test reads the configured flag, not the handle
NotConnectedByFlag == ~use_websocket

\* `not self.sio` (line 180)
NotConnected == sio = "None"

\* faulty variant of CallbackTarget: the flags are shared by all calls, so a callback
\* writes the locals of the latest emission
CallbackTargetShared(i) == nextId - 1

\* the closure the correlation callback of emission i writes (lines 187-196:
\* the callback is a closure over the locals of the call that emitted)
CallbackTarget(i) == i

\* faulty variant of BridgeResult: the timeout is decided by the clock, not the flag
BridgeResultByClock(t) ==
    LET c == closure[th[t].id] IN
    IF now >= th[t].deadline THEN TimeoutError(th[t].event)
    ELSE IF Truthy(c.response_error.val) THEN Raises(c.response_error.val, c.response_error.src)
    ELSE IF c.response_data = 0 THEN Returns("None", 0)
    ELSE Returns("response", c.response_data)

\* lines 203-209 for thread t
BridgeResult(t) ==
    LET c == closure[th[t].id] IN
    IF ~c.response_received THEN TimeoutError(th[t].event)
    ELSE IF Truthy(c.response_error.val) THEN Raises(c.response_error.val, c.response_error.src)
    ELSE IF c.response_data = 0 THEN Returns("None", 0)
    ELSE Returns("response", c.response_data)

\* what the caller of _socket_request does with its result: the domain
\* methods subscript the reply with their field (e.g. line 234)
Extract(m, r) ==
    IF m = "_socket_request" \/ r.kind = "raise" THEN r
    ELSE IF r.what = "None" THEN Raises("TypeError", 0)
    ELSE IF Entry(m).field = "success" THEN Returns("True", r.src)
    ELSE IF reply[r.src].field THEN Returns(Entry(m).field, r.src)
    ELSE Raises("KeyError", r.src)

Finish(t, o) ==
    [th[t] EXCEPT !.pc = "idle", !.outcome = o, !.endAt = now,
                  !.cbAtEnd = IF th[t].id = 0 THEN "none" ELSE cb[th[t].id]]

\* The locals of a call live until the thread's next call: emission i is live
\* while some thread's current (or last) call made it. The storage of a call
\* that has been superseded is garbage; a late callback writes it unobserved.
Live(i) == \E t \in Callers : th[t].id = i

Forget(f, t, init) == [i \in CallIds |-> IF i = th[t].id THEN init ELSE f[i]]

\* emissions still to come from calls that have passed their entry
Reserved == Cardinality({t \in Callers : th[t].pc \in {"sr_check", "sr_emit"}})

\* a domain method is called (e.g. create_agent, lines 232-236): it picks its
\* transport and calls _socket_request or _request
CallDomain(t, m) ==
    /\ ctor = "ready"
    /\ th[t].pc = "idle"
    /\ nextId + Reserved <= MaxCalls
    /\ th' = [th EXCEPT ![t] =
                IF Route(m) = "rt"
                THEN [IdleThread EXCEPT !.pc = "sr_check", !.method = m,
                                        !.event = Entry(m).event, !.rtAtCall = (sio # "None")]
                ELSE [IdleThread EXCEPT !.pc = "http", !.method = m, !.https = 1,
                                        !.rtAtCall = (sio # "None")]]
    /\ closure' = Forget(closure, t, NewClosure)
    /\ reply' = Forget(reply, t, NoReply)
    /\ arrival' = Forget(arrival, t, -1)
    /\ UNCHANGED <<ctor, use_websocket, sio, transportUp, evVars, timeout, now, nextId, cb>>

\* requests.request answers or fails (line 147); _request and the method's
\* else branch finish
HttpRespond(t, resp) ==
    /\ th[t].pc = "http"
    /\ th' = [th EXCEPT ![t] = [Finish(t, HttpBranch(th[t].method, resp)) EXCEPT !.resp = resp]]
    /\ UNCHANGED <<ctor, use_websocket, sio, transportUp, evVars,
                   timeout, now, nextId, closure, cb, reply, arrival>>

\* _socket_request is called directly: lines 180-181
CallSocketRequest(t, ev) ==
    /\ ctor = "ready"
    /\ th[t].pc = "idle"
    /\ nextId + Reserved <= MaxCalls
    /\ LET c == [IdleThread EXCEPT !.method = "_socket_request", !.event = ev,
                                   !.rtAtCall = (sio # "None"), !.endAt = now]
       IN  th' = [th EXCEPT ![t] =
                    IF NotConnected
                    THEN [c EXCEPT !.outcome = Raises("not_connected", 0)]
                    ELSE [c EXCEPT !.pc = "sr_emit"]]
    /\ closure' = Forget(closure, t, NewClosure)
    /\ reply' = Forget(reply, t, NoReply)
    /\ arrival' = Forget(arrival, t, -1)
    /\ UNCHANGED <<ctor, use_websocket, sio, transportUp, evVars, timeout, now, nextId, cb>>

\* lines 180-181 inside a domain method's call of _socket_request
SrCheck(t) ==
    /\ th[t].pc = "sr_check"
    /\ th' = [th EXCEPT ![t] =
                IF NotConnected
                THEN Finish(t, Raises("not_connected", 0))
                ELSE [th[t] EXCEPT !.pc = "sr_emit"]]
    /\ UNCHANGED <<ctor, use_websocket, sio, transportUp, evVars,
                   timeout, now, nextId, closure, cb, reply, arrival>>

\* lines 183-199: fresh locals, self.sio.emit(event, data, callback) and the
\* deadline; if close() has run since line 180, self.sio is None and the call
\* raises
SrEmit(t) ==
    /\ th[t].pc = "sr_emit"
    /\ IF sio = "None"
       THEN /\ th' = [th EXCEPT ![t] = Finish(t, Raises("AttributeError", 0))]
            /\ UNCHANGED <<nextId, closure, cb>>
       ELSE /\ th' = [th EXCEPT ![t] = [th[t] EXCEPT !.pc = "sr_wait", !.id = nextId,
                                                      !.emits = @ + 1,
                                                      !.deadline = now + timeout]]
            /\ nextId' = nextId + 1
            /\ closure' = [closure EXCEPT ![nextId] = NewClosure]
            /\ cb' = [cb EXCEPT ![nextId] = "pending"]
    /\ UNCHANGED <<ctor, use_websocket, sio, transportUp, evVars, timeout, now, reply, arrival>>

\* `not response_received and time.time() < timeout_time` (line 200)
KeepWaiting(t) == ~closure[th[t].id].response_received /\ now < th[t].deadline

\* lines 200-209: the thread wakes from time.sleep(0.1) (or arrives from line
\* 199) and tests the loop condition; when it fails, the result follows and
\* the caller uses it
SrPoll(t) ==
    /\ th[t].pc = "sr_wait"
    /\ th' = [th EXCEPT ![t] =
                IF KeepWaiting(t)
                THEN [th[t] EXCEPT !.waited = TRUE]
                ELSE Finish(t, Extract(th[t].method, BridgeResult(t)))]
    /\ UNCHANGED <<ctor, use_websocket, sio, transportUp, evVars,
                   timeout, now, nextId, closure, cb, reply, arrival>>

\* --------------------------------------------------- correlation callbacks
\* The transport's thread calls the callback of emission i with the server's
\* reply r: line 189
CallbackFlag(i, r) ==
    /\ transportUp
    /\ cb[i] = "pending"
    /\ cb' = [cb EXCEPT ![i] = "running"]
    /\ reply' = IF Live(i) THEN [reply EXCEPT ![i] = r] ELSE reply
    /\ arrival' = IF Live(i) THEN [arrival EXCEPT ![i] = now] ELSE arrival
    /\ closure' = IF Live(CallbackTarget(i))
                  THEN [closure EXCEPT ![CallbackTarget(i)].response_received = TRUE]
                  ELSE closure
    /\ UNCHANGED <<ctor, use_websocket, sio, transportUp, evVars, timeout, now, th, nextId>>

\* lines 191-194
CallbackStore(i) ==
    /\ cb[i] = "running"
    /\ cb' = [cb EXCEPT ![i] = "done"]
    /\ closure' = IF ~Live(i) \/ ~Live(CallbackTarget(i)) THEN closure
                  ELSE IF Truthy(reply[i].success)
                  THEN [closure EXCEPT ![CallbackTarget(i)].response_data = i]
                  ELSE [closure EXCEPT ![CallbackTarget(i)].response_error =
                            [val |-> GetError(reply[i]), src |-> i]]
    /\ UNCHANGED <<ctor, use_websocket, sio, transportUp, evVars,
                   timeout, now, th, nextId, reply, arrival>>

\* time passes
Tick ==
    /\ now < MaxTime
    /\ now' = now + 1
    /\ UNCHANGED <<ctor, use_websocket, sio, transportUp, evVars,
                   timeout, th, nextId, closure, cb, reply, arrival>>

\* ---------------------------------------------------------- specifications
NextEvents ==
    \/ CtorSetup
    \/ CtorHandlers
    \/ \E e \in EventNames, h \in Handlers : On(e, h) /\ UNCHANGED hist
    \/ \E e \in EventNames, h \in Handlers : Off(e, h) /\ UNCHANGED hist
    \/ \E e \in EventNames : PushEvent(e)
    \/ DispatchStep
    \/ Close

SpecEvents == Init /\ [][NextEvents]_vars

NextRegistry ==
    \/ CtorSetup
    \/ CtorHandlers
    \/ \E e \in EventNames, h \in Handlers : OnLogged(e, h)
    \/ \E e \in EventNames, h \in Handlers : OffLogged(e, h)

SpecRegistry == Init /\ [][NextRegistry]_vars

\* the events handed to _socket_request when it is called directly
BridgeEvents == {"agent:get"}

NextBridge ==
    \/ CtorSetup
    \/ CtorHandlers
    \/ \E ev \in BridgeEvents : CallSocketRequest(1, ev)
    \/ SrEmit(1)
    \/ SrPoll(1)
    \/ \E i \in CallIds, r \in Replies : CallbackFlag(i, r)
    \/ \E i \in CallIds : CallbackStore(i)
    \/ Tick
    \/ Close

\* one caller thread on the bridge, the transport's thread and close()
SpecBridge == Init /\ [][NextBridge]_vars

NextConcurrent ==
    \/ CtorSetup
    \/ CtorHandlers
    \/ \E t \in Callers, ev \in BridgeEvents : CallSocketRequest(t, ev)
    \/ \E t \in Callers : SrEmit(t)
    \/ \E t \in Callers : SrPoll(t)
    \/ \E i \in CallIds, r \in ConcurrentReplies : CallbackFlag(i, r)
    \/ \E i \in CallIds : CallbackStore(i)
    \/ Tick

\* several caller threads inside _socket_request at once
SpecConcurrent == Init /\ [][NextConcurrent]_vars

NextFacade ==
    \/ CtorSetup
    \/ CtorHandlers
    \/ \E m \in Methods : CallDomain(1, m)
    \/ \E resp \in HttpResponses : HttpRespond(1, resp)
    \/ SrCheck(1)
    \/ SrEmit(1)
    \/ SrPoll(1)
    \/ \E i \in CallIds, r \in FacadeReplies : CallbackFlag(i, r)
    \/ \E i \in CallIds : CallbackStore(i)
    \/ Tick
    \/ Close

\* one caller thread on the domain methods, the transport's thread and close()
SpecFacade == Init /\ [][NextFacade]_vars

\* ================================================================== claims
\* a call of thread t has ended
Finished(t) == th[t].pc = "idle" /\ th[t].outcome.kind # "none"

\* thread t's call of _socket_request has emitted and ended
BridgeCallDone(t) == Finished(t) /\ th[t].method = "_socket_request" /\ th[t].emits = 1

TimedOut(t) == th[t].outcome.kind = "raise" /\ th[t].outcome.what = "timeout"

C2_FalsyReplyFails ==
    \A t \in Callers :
        (/\ BridgeCallDone(t)
         /\ th[t].cbAtEnd = "done"
         /\ arrival[th[t].id] < th[t].deadline
         /\ ~Truthy(reply[th[t].id].success))
        => /\ th[t].outcome.kind = "raise"
           /\ reply[th[t].id].error = "X" => th[t].outcome.what = "X"
           /\ reply[th[t].id].error = "absent" => th[t].outcome.what = "Unknown error"

\* ---- C3
\* C3: _socket_request called while self.sio is None (real-time disabled,
\* connection failed, or closed) raises its not-connected error at once: no
\* emission, no pass through the waiting loop, no time elapsed.
C3_NoConnectionFailsAtOnce ==
    \A t \in Callers :
        (Finished(t) /\ th[t].method = "_socket_request" /\ ~th[t].rtAtCall)
        => /\ th[t].outcome = Raises("not_connected", 0)
           /\ th[t].emits = 0
           /\ ~th[t].waited
           /\ th[t].id = 0

\* a call after close() (the client had emitted before) failed at once
C3_Witness ==
    \E t \in Callers :
        /\ Finished(t) /\ th[t].method = "_socket_request" /\ ~th[t].rtAtCall
        /\ th[t].outcome.what = "not_connected"
        /\ use_websocket /\ nextId > 1 /\ sio = "None"

\* ---- C4
\* C4: a dispatch invokes every handler registered for the event, once per
\* registration, also when a handler fails or the registry changes during the
\* dispatch: a handler that stayed registered k times from the start of the
\* dispatch to its end has been invoked at least k times when it ends.
C4_DispatchInvokesAll == disp.phase = "done" => ~disp.missed

\* ---- C5
RECURSIVE DelFirst(_, _)
DelFirst(s, h) ==
    IF s = <<>> THEN <<>>
    ELSE IF Head(s) = h THEN Tail(s)
    ELSE <<Head(s)>> \o DelFirst(Tail(s), h)

RECURSIVE Replay(_, _)
Replay(ops, e) ==
    IF ops = <<>> THEN <<>>
    ELSE LET prev == Replay(SubSeq(ops, 1, Len(ops) - 1), e)
             o == ops[Len(ops)]
         IN  IF o.event # e THEN prev
             ELSE IF o.op = "on" THEN Append(prev, o.handler)
             ELSE DelFirst(prev, o.handler)

DomainCallDone(t) == Finished(t) /\ th[t].method \in Methods

\* what a domain method returns from a successful reply: its field of it
FieldOf(m, i) == Returns(IF Entry(m).field = "success" THEN "True" ELSE Entry(m).field, i)

C7_DeleteTrueOn2xx ==
    \A t \in Callers :
        (DomainCallDone(t) /\ th[t].method \in DeleteMethods /\ th[t].https = 1)
        => (th[t].outcome = Returns("True", 0) <=> th[t].resp \in {"2xx_json", "2xx_empty"})

\* ---- C8
\* C8: once construction has passed the connection attempt with no real-time
\* handle (disabled, failed, or later closed), no step makes self.sio active
\* again, and every domain method called in such a state issues exactly one
\* HTTP request and emits nothing.
C8_NoRealtimeMeansHttp ==
    /\ [](\A t \in Callers :
            (th[t].method \in Methods /\ ~th[t].rtAtCall)
            => /\ th[t].emits = 0
               /\ th[t].https = 1
               /\ th[t].pc \in {"idle", "http"}
               /\ Finished(t) => th[t].resp # "-")
    /\ [][(ctor # "setup" /\ sio = "None") => sio' = "None"]_vars
    /\ [](ctor \in {"setup", "handlers", "ready"})

\* the connection attempt failed at construction, construction completed and
\* a domain method went over HTTP
C8_Witness ==
    \E t \in Callers :
        /\ use_websocket /\ ctor = "ready" /\ sio = "None" /\ nextId = 1
        /\ DomainCallDone(t) /\ th[t].method = "create_task"
        /\ ~th[t].rtAtCall /\ th[t].https = 1 /\ th[t].outcome = Returns("json", 0)

\* ---- C9
\* C9: with calls of _socket_request running concurrently and replies
\* delivered in any order, the locals of a call only ever hold the reply to
\* its own emission, and the outcome of every call is the one its own reply
\* (or its absence) gives: a reply, late or not, reaches no other call.
C9_OwnReplyOnly ==
    /\ \A i \in CallIds :
          /\ closure[i].response_data \in {0, i}
          /\ closure[i].response_error.src \in {0, i}
          /\ closure[i].response_received => cb[i] \in {"running", "done"}
    /\ \A t \in Callers : BridgeCallDone(t) =>
          LET o == th[t].outcome
              r == reply[th[t].id]
          IN  /\ o.src \in {0, th[t].id}
              /\ TimedOut(t) <=> th[t].cbAtEnd = "pending"
              /\ o = Returns("response", th[t].id) => Truthy(r.success)
              /\ (o.kind = "raise" /\ ~TimedOut(t)) =>
                    ~Truthy(r.success) /\ o.what = GetError(r)

\* two calls overlapped: the earlier one timed out and its reply came late,
\* the later one returned its own reply
C9_Witness ==
    \E t1, t2 \in Callers :
        /\ t1 # t2
        /\ BridgeCallDone(t1) /\ BridgeCallDone(t2)
        /\ th[t1].id < th[t2].id
        /\ TimedOut(t1) /\ cb[th[t1].id] = "done" /\ closure[th[t1].id].response_received
        /\ th[t2].outcome = Returns("response", th[t2].id)
        /\ arrival[th[t1].id] >= arrival[th[t2].id]

\* ---- C10
\* C10: a push event delivered at any moment after the connection attempt
\* has started is dispatched without error: the registry exists whenever the
\* transport can deliver.
C10_PushNeverFails == disp.phase # "AttributeError"

====
